---- MODULE Spec2Model ----
(***************************************************************************)
(* The data-synchronisation behaviour of the Home view                     *)
(* (src/unnamed/part_000) and of the AddBook and BookDetail views          *)
(* (src/practice-one/.../ProductSection.jsx, lines 151-191 and 229-449).   *)
(*                                                                         *)
(* Every handler is one action: the state updates it makes, the render     *)
(* that follows and the effects of that render happen in one step, as      *)
(* React runs them in one task.  A fetch reads the backend when it is      *)
(* sent and is one further step, the delivery of its answer; a remove is   *)
(* two: the backend acts, and the continuation of handleConfirm runs.      *)
(*                                                                         *)
(* Strings the code measures (`.length`, `.trim()`) are sequences of       *)
(* one-character strings.  Every SWR key is a record [kind, arg] and every *)
(* cached value a sequence of product ids.                                 *)
(***************************************************************************)
EXTENDS Integers, Sequences, FiniteSets, TLC

(***************************************************************************)
(* Bounds of the model.                                                    *)
(***************************************************************************)
\* how many delete confirmations one behaviour holds
MaxRemoves == 2

\* how many changes of the search field one burst holds
MaxBurst == 3

\* the steps the clock takes through one quiet period of the debouncer
Slices == 2

\* how many times the loaders are invoked in one behaviour
MaxRequests == 3

\* how many cache entries hold an error at one time
MaxErrors == 1

\* how many hire mutations one behaviour dispatches
MaxHires == 2

\* how many times the book's data changes after it was loaded
MaxVersions == 2

\* the largest number of copies of the book, and of hire requests of the user
MaxQuantity == 1

\* how many error toasts of handleHireBook one behaviour shows
MaxBlocked == 2

\* how many delete mutations one behaviour of BookDetail dispatches
MaxDeletes == 2

\* how many add mutations one behaviour of AddBook dispatches
MaxAdds == 2

\* how many books reach the book store from elsewhere
MaxStored == 2

\* how many times App renders again while a view stays on its route
MaxRenders == 1

(***************************************************************************)
(* Program constants.                                                      *)
(***************************************************************************)
\* part_000:66   if (status !== 200)
StatusOK == 200

\* part_000:17   useDebounce(searchValue, 1000)
DebounceDelay == 1000

\* the scenario's collection: the server holds [A, B, C] when Home mounts
Items == <<"A", "B", "C">>

ItemIds == {Items[i] : i \in 1..Len(Items)}

\* part_000:26   useState(undefined)
NoSelection == "undefined"

(***************************************************************************)
(* Request keys (part_000:15, 19, 29).                                     *)
(***************************************************************************)
\* part_000:15   useSWR(API_PRODUCTS, ...)
ListKey == [kind |-> "list", arg |-> <<>>]

\* part_000:19   [API_PRODUCTS, debouncedValue]
FindKey(term) == [kind |-> "find", arg |-> term]

\* part_000:29   API_PRODUCTS + `/${selectedProductId}`
ItemKey(id) == [kind |-> "item", arg |-> <<id>>]

\* the `null` key of a conditional useSWR
NoKey == [kind |-> "null", arg |-> <<>>]

(***************************************************************************)
(* State.                                                                  *)
(***************************************************************************)
VARIABLES
  cache,              \* SWR cache: key -> [loaded, data, error]
  fetching,           \* SWR request markers (FETCH)
  issued,             \* how many times a loader was invoked
  server,             \* the collection the transport's backend holds
  searchValue,        \* part_000:16
  debouncedValue,     \* part_000:17
  timer,              \* useDebounce's pending timeout: time left, -1 if none
  burst,              \* input changes since the debounce last committed
  showDeleteDialog,   \* part_000:23
  showEditDialog,     \* part_000:25
  selectedProductId,  \* part_000:26
  shouldFetch,        \* part_000:27
  removes,            \* every handleConfirm call, in order of the clicks
  toastActive,        \* a toast with toastId = notifyId is on screen
  errorShown,         \* the keys whose failure is reported by a toast that was rendered
  late,               \* an answer arrived for an entity key the hook had left
  editAsked           \* the product the user asked to edit and has not left since

homeVars == <<cache, fetching, issued, server, searchValue, debouncedValue, timer, burst,
              showDeleteDialog, showEditDialog, selectedProductId, shouldFetch,
              removes, toastActive, errorShown, late, editAsked>>

VARIABLES
  bookData,           \* ProductSection.jsx:248  useGetBookDetail(bookId).data
  currentUser,        \* ProductSection.jsx:231
  hireCount,          \* how many hire mutations were dispatched
  hireOutcome,        \* mutation -> "none", "loading", "success", "error"
  hireStatus,         \* ProductSection.jsx:281-283  the mutation hook's status
  returnData,         \* ProductSection.jsx:284  the hired record, 0 if undefined
  isOpen,             \* ProductSection.jsx:236  the delete dialog
  hireToastActive,    \* the toast with id toastId is on screen
  successToasts,      \* mutation -> success notifications rendered for it
  errorToasts,        \* mutation -> failure notifications rendered for it
  hired,              \* the hired store: the records added, in order
  blockedToasts,      \* ProductSection.jsx:324-338  error notifications of handleHireBook
  deleteCount,        \* how many delete mutations were dispatched
  deleteOutcome,      \* mutation -> "none", "loading", "success", "error"
  deleteStatus,       \* ProductSection.jsx:254  the delete hook's status
  deleteToasts,       \* notifications of the delete effect: success per mutation, error
  navigations,        \* ProductSection.jsx:275  calls of navigate('/admin/dashboard')
  mounted,            \* BookDetail is the element of the current route
  isLoading,          \* ProductSection.jsx:248  the book's query has not settled yet
  toast               \* ProductSection.jsx:233  which function useToast returned, numbered

deleteVars == <<deleteCount, deleteOutcome, deleteStatus, deleteToasts, navigations,
                mounted>>

bookVars == <<bookData, currentUser, hireCount, hireOutcome, hireStatus, returnData,
              isOpen, hireToastActive, successToasts, errorToasts, hired,
              blockedToasts, deleteVars, isLoading, toast>>

VARIABLES
  addCount,           \* how many add mutations were dispatched
  addOutcome,         \* mutation -> "none", "loading", "success", "error"
  addStatus,          \* ProductSection.jsx:155  the add hook's status
  addValues,          \* ProductSection.jsx:177  the values of the last submit
  addData,            \* ProductSection.jsx:155  data: the added record
  bookStore,          \* ProductSection.jsx:154  the book store: the records added
  addPage,            \* "form" until the effect calls navigate('/'), then "left"
  addMounted,         \* AddBook is the element of the current route
  addToasts,          \* notifications of AddBook: [success, error]
  addError,           \* ProductSection.jsx:155  error: "null", "Error", or "other"
  addRenders          \* how many times App rendered again under AddBook

addVars == <<addCount, addOutcome, addStatus, addValues, addData, bookStore, addPage,
             addMounted, addToasts, addError, addRenders>>

vars == <<homeVars, bookVars, addVars>>

(***************************************************************************)
(* Strings the code measures.                                              *)
(***************************************************************************)
\* the values the search field takes: "", " ", "a", "ab", "abc"
Inputs == {<<>>, <<" ">>, <<"a">>, <<"a", "b">>, <<"a", "b", "c">>}

RECURSIVE TrimLeft(_)
TrimLeft(s) == IF s # <<>> /\ Head(s) = " " THEN TrimLeft(Tail(s)) ELSE s

RECURSIVE TrimRight(_)
TrimRight(s) ==
  IF s # <<>> /\ s[Len(s)] = " " THEN TrimRight(SubSeq(s, 1, Len(s) - 1)) ELSE s

\* String.prototype.trim, as part_000:114 uses it
Trim(s) == TrimRight(TrimLeft(s))

Keys == {ListKey} \cup {FindKey(t) : t \in Inputs} \cup {ItemKey(id) : id \in ItemIds}

(***************************************************************************)
(* SWR (part_000:15-31): the cache, the request markers and the hooks'     *)
(* return values.                                                          *)
(***************************************************************************)
\* the name a product is searched by
NameOf(id) ==
  CASE id = "A" -> <<"a">>
    [] id = "B" -> <<"a", "b">>
    [] OTHER -> <<"a", "b", "c">>

\* term occurs in name
Contains(name, term) ==
  \E i \in 1..(Len(name) - Len(term) + 1) : SubSeq(name, i, i + Len(term) - 1) = term

\* the elements of a sequence
Range(s) == {s[i] : i \in 1..Len(s)}

\* productService.find(path, query) at the backend
Search(term, srv) == SelectSeq(srv, LAMBDA id : Contains(NameOf(id), term))

\* what the backend holding srv answers a request for k with, if it can
Answer(k, srv) ==
  CASE k.kind = "list" -> srv
    [] k.kind = "find" -> Search(k.arg, srv)
    [] OTHER -> IF Head(k.arg) \in Range(srv) THEN k.arg ELSE <<>>

\* whether the backend has an answer for k: an entity must exist
Answerable(k, srv) == IF k.kind = "item" THEN Head(k.arg) \in Range(srv) ELSE TRUE

\* a request the loader was invoked for; the backend reads the resource when
\* the request is sent, the answer travels for as long as it likes
Request(k, srv) ==
  [key |-> k, phase |-> "sent", found |-> Answerable(k, srv), data |-> Answer(k, srv),
   stale |-> FALSE, joined |-> FALSE]

\* a request marker for k exists: in flight, or inside the deduping interval
HasMarker(f, k) == \E r \in f : r.key = k

\* a request for k is still in flight
Pending(f, k) == \E r \in f : r.key = k /\ r.phase # "done"

\* a second registration attaches to the request in flight
Join(f, k) ==
  {IF r.key = k /\ r.phase # "done" THEN [r EXCEPT !.joined = TRUE] ELSE r : r \in f}

\* a revalidation that invokes the loader whatever is in flight
SWRRevalidateNoDedupe(f, k, srv) == IF k = NoKey THEN f ELSE f \cup {Request(k, srv)}

\* revalidate(WITH_DEDUPE): the loader is invoked unless a marker for k exists
SWRRevalidate(f, k, srv) ==
  IF k = NoKey THEN f
  ELSE IF HasMarker(f, k) THEN Join(f, k)
  ELSE f \cup {Request(k, srv)}

\* the hook's effect: it runs when the key of the render differs from the last
AfterRender(f, oldKey, newKey, srv) ==
  IF newKey # oldKey THEN SWRRevalidate(f, newKey, srv) ELSE f

\* useSWR(...).data
DataOf(c, k) == IF k # NoKey /\ c[k].loaded THEN c[k].data ELSE <<>>

\* useSWR(...).data is defined
HasData(c, k) == k # NoKey /\ c[k].loaded

\* useSWR(...).isLoading: a request is in flight and there is no data yet
IsLoading(c, f, k) == k # NoKey /\ ~c[k].loaded /\ Pending(f, k)

\* a mutate that leaves the cache entry as it is
MutateKeeps(c, k, data) == c

\* part_000:68-70   mutate(remainProducts, { revalidate: false }): the cache
\* entry is written
Mutate(c, k, data) == [c EXCEPT ![k] = [loaded |-> TRUE, data |-> data, error |-> FALSE]]

\* ... and the requests started before the mutation are discarded on arrival
MarkStale(f, k) ==
  {IF r.key = k /\ r.phase # "done" THEN [r EXCEPT !.stale = TRUE] ELSE r : r \in f}

\* the requests whose loader is invoked in the step from markers f to markers
\* g: the new ones, not those a registration joined or a mutation discarded
Invoked(f, g) ==
  {r \in g : r.phase = "sent" /\ ~r.joined /\ ~r.stale /\ r \notin f}

\* the number of loader invocations after that step
Count(n, f, g) == n + Cardinality(Invoked(f, g))

\* the behaviour stays within its budget of loader invocations
WithinBudget(n) == n <= MaxRequests

(***************************************************************************)
(* What Home computes in a render.                                         *)
(***************************************************************************)
\* a search key that is active for every value
SearchKeyAlways(debounced) == FindKey(debounced)

\* part_000:19   debouncedValue.length ? [API_PRODUCTS, debouncedValue] : null
SearchKey(debounced) == IF Len(debounced) # 0 THEN FindKey(debounced) ELSE NoKey

\* part_000:29   shouldFetch ? API_PRODUCTS + `/${selectedProductId}` : null
EntityKey(should, selected) == IF should THEN ItemKey(selected) ELSE NoKey

\* a search key built from the raw input
HookTermRaw(raw, debounced) == raw

\* part_000:19   the value the search key is built from: the debounced one
HookTerm(raw, debounced) == debounced

\* part_000:15   products
Products == DataOf(cache, ListKey)

\* part_000:28   isFetch
IsFetch == IsLoading(cache, fetching, EntityKey(shouldFetch, selectedProductId))

\* part_000:95   if (error) return handleNotifyError(error): nothing of Home is
\* on screen while the collection's error is set
HomeVisible == ~cache[ListKey].error

\* part_000:114  !searchValue.trim() ? renderProducts(products) : renderProducts(find)
Rendered ==
  IF Trim(searchValue) = <<>> THEN Products
  ELSE DataOf(cache, SearchKey(HookTerm(searchValue, debouncedValue)))

\* part_000:133  showEditDialog && !isFetch
EditFormShown == HomeVisible /\ showEditDialog /\ ~IsFetch

\* part_000:136  defaultValues={data}
DefaultValues == DataOf(cache, EntityKey(shouldFetch, selectedProductId))

\* part_000:63   products.filter((item) => item.id !== selectedProductId)
RemainProducts(products, id) == SelectSeq(products, LAMBDA item : item # id)

\* toastConfig(notifyId, ...): a toast whose id is already on screen is not
\* rendered a second time
ToastRendered(active) == ~active

\* part_000:15, 18, 28  what the hook holding k returns of the fields Home
\* reads: data and isLoading, and for the collection also error; SWR renders
\* Home when one of them changes
HookState(c, f, k) ==
  <<c[k].loaded, c[k].data, IsLoading(c, f, k), k = ListKey /\ c[k].error>>

\* part_000:95   if (error) return handleNotifyError(error): a render of Home
\* that finds the collection's error set calls toast.error
NotifiesListError(rendered, c) == rendered /\ c[ListKey].error

\* part_000:33-38  toast.error with toastId = notifyId: a toast is on screen
\* afterwards
ToastAfter(active, notifies) == active \/ notifies

\* the keys whose failure a rendered toast has reported, after a render
ShownAfter(shown, active, notifies) ==
  IF notifies /\ ToastRendered(active) THEN shown \cup {ListKey} ELSE shown

(***************************************************************************)
(* Home after its first render: every cache entry is empty, the eager      *)
(* collection key has its request in flight, the debouncer has armed its   *)
(* first timeout.                                                          *)
(***************************************************************************)
HomeInit ==
  /\ cache = [k \in Keys |-> [loaded |-> FALSE, data |-> <<>>, error |-> FALSE]]
  /\ fetching = {Request(ListKey, Items)}
  /\ issued = 1
  /\ server = Items
  /\ searchValue = <<>>
  /\ debouncedValue = <<>>
  /\ timer = DebounceDelay
  /\ burst = 0
  /\ showDeleteDialog = FALSE
  /\ showEditDialog = FALSE
  /\ selectedProductId = NoSelection
  /\ shouldFetch = FALSE
  /\ removes = <<>>
  /\ toastActive = FALSE
  /\ errorShown = {}
  /\ late = FALSE
  /\ editAsked = NoSelection

(***************************************************************************)
(* BookDetail after its first render (ProductSection.jsx:229-248): the     *)
(* book's query has no data yet, no hire mutation was dispatched, the      *)
(* dialog is closed, <Loading /> is on screen.  The first run of the hire  *)
(* effect (288-316) closes the closed dialog and returns at line 290.      *)
(***************************************************************************)
Mutations == 1..MaxHires

Deletions == 1..MaxDeletes

NoBook == [loaded |-> FALSE, version |-> 0, quantity |-> 0]

BookInit ==
  /\ bookData = NoBook
  /\ currentUser = [present |-> TRUE, role |-> "admin", hireRequests |-> MaxQuantity]
  /\ hireCount = 0
  /\ hireOutcome = [m \in Mutations |-> "none"]
  /\ hireStatus = "idle"
  /\ returnData = 0
  /\ isOpen = FALSE
  /\ hireToastActive = FALSE
  /\ successToasts = [m \in Mutations |-> 0]
  /\ errorToasts = [m \in Mutations |-> 0]
  /\ hired = <<>>
  /\ blockedToasts = 0
  /\ deleteCount = 0
  /\ deleteOutcome = [m \in Deletions |-> "none"]
  /\ deleteStatus = "idle"
  /\ deleteToasts = [success |-> [m \in Deletions |-> 0], error |-> 0]
  /\ navigations = 0
  /\ mounted = TRUE
  /\ isLoading = TRUE
  /\ toast = 0

\* the names the form submits and the books of the store carry
Names == {"x", "y", "z"}

\* ProductSection.jsx:155  data while no add mutation has succeeded
NoRecord == [id |-> 0, name |-> ""]

(***************************************************************************)
(* AddBook after its first render (ProductSection.jsx:151-155): no add     *)
(* mutation was dispatched, the form is on screen.                         *)
(***************************************************************************)
Additions == 1..MaxAdds

AddInit ==
  /\ addCount = 0
  /\ addOutcome = [m \in Additions |-> "none"]
  /\ addStatus = "idle"
  /\ addValues = ""
  /\ addData = NoRecord
  /\ bookStore = <<>>
  /\ addPage = "form"
  /\ addMounted = TRUE
  /\ addToasts = [success |-> 0, error |-> 0]
  /\ addError = "null"
  /\ addRenders = 0

Init == HomeInit /\ BookInit /\ AddInit

(***************************************************************************)
(* The network side of a fetch.                                            *)
(***************************************************************************)
\* a cache with one slot for each kind of resource, not for each key
DeliveredPerKind(c, r, ok) ==
  IF ~ok THEN [c EXCEPT ![r.key].error = TRUE]
  ELSE IF r.stale THEN c
  ELSE [k \in Keys |->
          IF k.kind = r.key.kind THEN [loaded |-> TRUE, data |-> r.data, error |-> FALSE]
          ELSE c[k]]

\* the cache entry of r.key once request r has completed: a failure is
\* stored whatever happened meanwhile, an answer is dropped if a mutation
\* has discarded the request
Delivered(c, r, ok) ==
  IF ~ok THEN [c EXCEPT ![r.key].error = TRUE]
  ELSE IF r.stale THEN c
  ELSE [c EXCEPT ![r.key] = [loaded |-> TRUE, data |-> r.data, error |-> FALSE]]

\* the request markers once request r has completed: an answered request
\* keeps its marker for the deduping interval, a failed one loses it at once
Completed(f, r, ok) ==
  IF ok THEN (f \ {r}) \cup {[r EXCEPT !.phase = "done"]} ELSE f \ {r}

\* the keys the three hooks of Home hold (part_000:15, 18, 28)
HookKeys ==
  {ListKey, SearchKey(HookTerm(searchValue, debouncedValue)),
   EntityKey(shouldFetch, selectedProductId)} \ {NoKey}

\* the arrival of r makes Home render: a hook of Home holds r.key and what it
\* returns changes, or the collection's request failed (every failure brings
\* an Error of its own)
DeliverRenders(r, ok, c, f) ==
  /\ r.key \in HookKeys
  /\ \/ r.key = ListKey /\ ~ok
     \/ HookState(cache, fetching, r.key) # HookState(c, f, r.key)

\* request r completes, with the answer or with a failure; SWR updates the
\* entry and Home renders if a hook of Home returns something else
Deliver(r, ok) ==
  /\ r \in fetching
  /\ r.phase = "sent"
  /\ ok => r.found
  /\ ~ok => Cardinality({k \in Keys : cache[k].error} \ {r.key}) < MaxErrors
  /\ cache' = Delivered(cache, r, ok)
  /\ fetching' = Completed(fetching, r, ok)
  /\ LET rendered == DeliverRenders(r, ok, cache', fetching')
         notifies == NotifiesListError(rendered, cache')
     IN  /\ errorShown' =
              ShownAfter(IF r.stale \/ ~ok THEN errorShown ELSE errorShown \ {r.key},
                         toastActive, notifies)
         /\ toastActive' = ToastAfter(toastActive, notifies)
  /\ late' = (late \/ (r.key.kind = "item" /\
                         r.key # EntityKey(shouldFetch, selectedProductId)))
  /\ UNCHANGED <<issued, server, searchValue, debouncedValue, timer, burst,
                 showDeleteDialog, showEditDialog, selectedProductId, shouldFetch,
                 removes>>
  /\ UNCHANGED editAsked
  /\ UNCHANGED bookVars
  /\ UNCHANGED addVars

\* the deduping interval of a finished request ends
DedupExpire(r) ==
  /\ r \in fetching
  /\ r.phase = "done"
  /\ fetching' = fetching \ {r}
  /\ UNCHANGED <<cache, issued, server, searchValue, debouncedValue, timer, burst,
                 showDeleteDialog, showEditDialog, selectedProductId, shouldFetch,
                 removes, toastActive, errorShown, late>>
  /\ UNCHANGED editAsked
  /\ UNCHANGED bookVars
  /\ UNCHANGED addVars

\* the window regains focus, the network returns, or SWR retries after an
\* error: the hook holding k revalidates it, with dedupe; Home renders if the
\* hook's isLoading changes
Revalidate(k) ==
  /\ k \in HookKeys
  /\ fetching' = SWRRevalidate(fetching, k, server)
  /\ fetching' # fetching
  /\ issued' = Count(issued, fetching, fetching')
  /\ WithinBudget(issued')
  /\ LET notifies ==
           NotifiesListError(HookState(cache, fetching, k) # HookState(cache, fetching', k),
                             cache)
     IN  /\ toastActive' = ToastAfter(toastActive, notifies)
         /\ errorShown' = ShownAfter(errorShown, toastActive, notifies)
  /\ UNCHANGED <<cache, server, searchValue, debouncedValue, timer, burst,
                 showDeleteDialog, showEditDialog, selectedProductId, shouldFetch,
                 removes, late>>
  /\ UNCHANGED editAsked
  /\ UNCHANGED bookVars
  /\ UNCHANGED addVars

\* the toast on screen closes (autoClose, or the user dismisses it)
ToastClose ==
  /\ toastActive
  /\ toastActive' = FALSE
  /\ UNCHANGED <<cache, fetching, issued, server, searchValue, debouncedValue, timer,
                 burst, showDeleteDialog, showEditDialog, selectedProductId, shouldFetch,
                 removes, errorShown, late>>
  /\ UNCHANGED editAsked
  /\ UNCHANGED bookVars
  /\ UNCHANGED addVars

(***************************************************************************)
(* Deleting a product (part_000:40-43, 60-73).                             *)
(***************************************************************************)
\* part_000:40-43   handleDeleteProduct, and the render it causes
HandleDeleteProduct(id) ==
  /\ HomeVisible
  /\ id \in Range(Rendered)
  /\ showDeleteDialog' = TRUE
  /\ selectedProductId' = id
  /\ fetching' = AfterRender(fetching, EntityKey(shouldFetch, selectedProductId),
                             EntityKey(shouldFetch, id), server)
  /\ issued' = Count(issued, fetching, fetching')
  /\ WithinBudget(issued')
  /\ UNCHANGED <<cache, server, searchValue, debouncedValue, timer, burst,
                 showEditDialog, shouldFetch, removes, toastActive, errorShown, late>>
  /\ editAsked' = NoSelection
  /\ UNCHANGED bookVars
  /\ UNCHANGED addVars

\* part_000:60   handleCancel
HandleCancel ==
  /\ HomeVisible
  /\ showDeleteDialog
  /\ showDeleteDialog' = FALSE
  /\ UNCHANGED <<cache, fetching, issued, server, searchValue, debouncedValue, timer, burst,
                 showEditDialog, selectedProductId, shouldFetch, removes,
                 toastActive, errorShown, late>>
  /\ UNCHANGED editAsked
  /\ UNCHANGED bookVars
  /\ UNCHANGED addVars

\* what handleConfirm holds when it suspends at the await of line 64
RemoveCall(products, id) ==
  [id |-> id, base |-> products, remain |-> RemainProducts(products, id),
   phase |-> "sent", status |-> 0, thrown |-> FALSE, notice |-> "none",
   shown |-> FALSE]

\* part_000:62-64   handleConfirm up to the await: nothing of Home's state or
\* of the cache changes
HandleConfirm ==
  /\ HomeVisible
  /\ showDeleteDialog
  /\ HasData(cache, ListKey)
  /\ Len(removes) < MaxRemoves
  /\ removes' = Append(removes, RemoveCall(Products, selectedProductId))
  /\ UNCHANGED <<cache, fetching, issued, server, searchValue, debouncedValue, timer, burst,
                 showDeleteDialog, showEditDialog, selectedProductId, shouldFetch,
                 toastActive, errorShown, late>>
  /\ UNCHANGED editAsked
  /\ UNCHANGED bookVars
  /\ UNCHANGED addVars

\* productService.remove at the backend: the product is removed and the
\* status is 200, or the request is refused, or no answer can be had
ServerRemove(i, outcome) ==
  /\ i \in 1..Len(removes)
  /\ removes[i].phase = "sent"
  /\ outcome = "ok" => removes[i].id \in Range(server)
  /\ server' = IF outcome = "ok" THEN RemainProducts(server, removes[i].id) ELSE server
  /\ removes' = [removes EXCEPT ![i] =
                   [@ EXCEPT !.phase = "replied",
                             !.status = CASE outcome = "ok" -> StatusOK
                                          [] outcome = "refused" -> 500
                                          [] OTHER -> 0,
                             !.thrown = (outcome = "lost")]]
  /\ UNCHANGED <<cache, fetching, issued, searchValue, debouncedValue, timer, burst,
                 showDeleteDialog, showEditDialog, selectedProductId, shouldFetch,
                 toastActive, errorShown, late>>
  /\ UNCHANGED editAsked
  /\ UNCHANGED bookVars
  /\ UNCHANGED addVars

\* a status test that takes every answer for a success
IsFailureNever(r) == FALSE

\* part_000:66   the test that sends handleConfirm to handleNotifyError
IsFailure(r) == r.status # StatusOK

\* part_000:64-72   handleConfirm after the await
RemoveSettle(i) ==
  /\ i \in 1..Len(removes)
  /\ removes[i].phase = "replied"
  /\ IF removes[i].thrown
       THEN \* the await throws: the rest of handleConfirm never runs
            /\ removes' = [removes EXCEPT ![i].phase = "settled"]
            /\ UNCHANGED <<cache, fetching, showDeleteDialog, toastActive>>
       ELSE IF IsFailure(removes[i])
       THEN \* line 66 -> handleNotifyError -> toast.error
            /\ removes' = [removes EXCEPT ![i] =
                             [@ EXCEPT !.phase = "settled", !.notice = "error",
                                       !.shown = ToastRendered(toastActive)]]
            /\ toastActive' = TRUE
            /\ UNCHANGED <<cache, fetching, showDeleteDialog>>
       ELSE \* lines 67-72
            /\ removes' = [removes EXCEPT ![i] =
                             [@ EXCEPT !.phase = "settled", !.notice = "success",
                                       !.shown = ToastRendered(toastActive)]]
            /\ toastActive' = TRUE
            /\ cache' = Mutate(cache, ListKey, removes[i].remain)
            /\ fetching' = MarkStale(fetching, ListKey)
            /\ showDeleteDialog' = FALSE
  /\ UNCHANGED <<issued, server, searchValue, debouncedValue, timer, burst,
                 showEditDialog, selectedProductId, shouldFetch, errorShown, late>>
  /\ UNCHANGED editAsked
  /\ UNCHANGED bookVars
  /\ UNCHANGED addVars

(***************************************************************************)
(* Home under deletes: the user opens, cancels and confirms the dialog,    *)
(* the network answers, SWR revalidates.                                   *)
(***************************************************************************)
DeleteNext ==
  \/ \E id \in ItemIds : HandleDeleteProduct(id)
  \/ HandleCancel
  \/ HandleConfirm
  \/ \E i \in 1..MaxRemoves, o \in {"ok", "refused", "lost"} : ServerRemove(i, o)
  \/ \E i \in 1..MaxRemoves : RemoveSettle(i)
  \/ \E r \in fetching, ok \in BOOLEAN : Deliver(r, ok)
  \/ \E r \in fetching : DedupExpire(r)
  \/ Revalidate(ListKey)
  \/ ToastClose

SpecDelete == Init /\ [][DeleteNext]_vars

(***************************************************************************)
(* Claims about deleting in Home, checked under SpecDelete.                *)
(***************************************************************************)
\* the delete of B confirmed while the cached collection is [A, B, C]
IsDeleteOfB(r) == r.id = "B" /\ r.base = Items

\* productService.remove did not succeed: it returned another status than
\* 200, or it could not complete the call
RemoveFailed(r) == r.phase = "settled" /\ (r.thrown \/ IsFailure(r))

\* C1: a delete of B, confirmed while the cached collection is [A, B, C], whose
\* remove fails shows the successive collections [A,B,C] -> [A,C] -> [A,B,C]:
\* while remove is in flight the cache holds the collection without B, after
\* the failure it holds the original again, and one failure notification has
\* been emitted.
C1_OptimisticApplyThenRollback ==
  \A i \in 1..Len(removes) :
    (Len(removes) = 1 /\ IsDeleteOfB(removes[i])) =>
      /\ removes[i].phase # "settled" => Products = <<"A", "C">>
      /\ RemoveFailed(removes[i]) =>
           Products = Items /\ removes[i].notice = "error"

\* C2: once the delete of B, confirmed while the cached collection is
\* [A, B, C], has succeeded with status 200, the cached collection is [A, C]
\* (as long as that delete is the only one) and never holds B again, and one
\* success notification has been delivered to the user for it.
C2_SuccessfulDeleteCommits ==
  \A i \in 1..Len(removes) :
    (/\ IsDeleteOfB(removes[i])
     /\ removes[i].phase = "settled"
     /\ removes[i].status = StatusOK) =>
      /\ Len(removes) = 1 => Products = <<"A", "C">>
      /\ "B" \notin Range(Products)
      /\ removes[i].notice = "success"
      /\ removes[i].shown

\* C7: every confirmed delete whose remove did not succeed (another status
\* than 200, or a call the transport could not complete) has a failure
\* notification on the user's screen.
C7_NoSilentDeleteFailure ==
  \A i \in 1..Len(removes) :
    RemoveFailed(removes[i]) => removes[i].notice = "error" /\ removes[i].shown

\* this step is the continuation of handleConfirm call i after a remove that
\* did not succeed
FailedSettle(i) ==
  /\ i \in 1..Len(removes)
  /\ removes[i].phase = "replied"
  /\ removes'[i].phase = "settled"
  /\ (removes[i].thrown \/ removes[i].status # StatusOK)

\* C12: the failure of a confirmed delete changes neither the cache nor the
\* dialog nor the selection: they are what they were before the failure was
\* handled, and when that delete is the only one the cached collection is the
\* one held when it was confirmed.
C12_FailedDeleteLeavesState ==
  /\ [][\A i \in 1..MaxRemoves :
          FailedSettle(i) =>
            /\ cache' = cache
            /\ showDeleteDialog' = showDeleteDialog
            /\ selectedProductId' = selectedProductId]_vars
  /\ [](\A i \in 1..Len(removes) :
          (/\ Len(removes) = 1
           /\ removes[i].phase = "settled"
           /\ (removes[i].thrown \/ removes[i].status # StatusOK)) =>
             Products = removes[i].base)

\* C12 witness: a delete was refused by the backend and has settled; the
\* dialog is open, the product is selected, the collection is as before.
C12_Witness ==
  \E i \in 1..Len(removes) :
    /\ removes[i].phase = "settled"
    /\ ~removes[i].thrown
    /\ removes[i].status # StatusOK
    /\ showDeleteDialog
    /\ selectedProductId = removes[i].id
    /\ Products = removes[i].base
    /\ removes[i].id \in Range(Products)

\* this step is the continuation of handleConfirm call i after a remove that
\* returned 200
CommitSettle(i) ==
  /\ i \in 1..Len(removes)
  /\ removes[i].phase = "replied"
  /\ removes'[i].phase = "settled"
  /\ ~removes[i].thrown
  /\ removes[i].status = StatusOK

\* C14: the commit of a successful delete invokes no loader, and after it the
\* cache entry of the collection key holds the collection the commit wrote.
C14_CommitWithoutRoundTrip ==
  [][\A i \in 1..MaxRemoves :
       CommitSettle(i) =>
         /\ Invoked(fetching, fetching') = {}
         /\ issued' = issued
         /\ cache'[ListKey] =
              [loaded |-> TRUE, data |-> removes[i].remain, error |-> FALSE]]_vars

\* C14 witness: a delete has been committed, the cached collection is the one
\* the commit wrote, and the only loader invocation is the one of the mount.
C14_Witness ==
  \E i \in 1..Len(removes) :
    /\ removes[i].phase = "settled"
    /\ removes[i].notice = "success"
    /\ removes[i].remain # removes[i].base
    /\ Products = removes[i].remain
    /\ issued = 1

\* C17: no product whose remove returned 200 and whose delete has been
\* committed is in the cached collection, whatever the order of the
\* confirmations and completions.
C17_NoReinsertion ==
  \A i \in 1..Len(removes) :
    (removes[i].phase = "settled" /\ removes[i].notice = "success") =>
      removes[i].id \notin Range(Products)

(***************************************************************************)
(* Searching (part_000:16-21, 93).  useDebounce keeps one timeout: every   *)
(* change of the raw value clears it and arms a new one of DebounceDelay,  *)
(* and the timeout commits the raw value.                                  *)
(***************************************************************************)
\* how far the clock moves in one step
TickLen == DebounceDelay \div Slices

\* part_000:93   handleChangeSearchValue, the render and the effects after it
HandleChangeSearchValue(v) ==
  /\ HomeVisible
  /\ v # searchValue
  /\ searchValue' = v
  /\ timer' = DebounceDelay
  /\ burst' = IF timer = -1 THEN 1 ELSE burst + 1
  /\ burst' <= MaxBurst
  /\ fetching' = AfterRender(fetching, SearchKey(HookTerm(searchValue, debouncedValue)),
                             SearchKey(HookTerm(v, debouncedValue)), server)
  /\ issued' = Count(issued, fetching, fetching')
  /\ WithinBudget(issued')
  /\ UNCHANGED <<cache, server, debouncedValue, showDeleteDialog, showEditDialog,
                 selectedProductId, shouldFetch, removes, toastActive, errorShown, late>>
  /\ UNCHANGED editAsked
  /\ UNCHANGED bookVars
  /\ UNCHANGED addVars

\* time passes while the timeout is pending
Tick ==
  /\ timer > 0
  /\ timer' = IF timer > TickLen THEN timer - TickLen ELSE 0
  /\ UNCHANGED <<cache, fetching, issued, server, searchValue, debouncedValue, burst,
                 showDeleteDialog, showEditDialog, selectedProductId, shouldFetch,
                 removes, toastActive, errorShown, late>>
  /\ UNCHANGED editAsked
  /\ UNCHANGED bookVars
  /\ UNCHANGED addVars

\* the timeout fires: the raw value becomes the debounced value, and Home
\* renders if that is another value
DebounceFire ==
  /\ timer = 0
  /\ timer' = -1
  /\ debouncedValue' = searchValue
  /\ fetching' = AfterRender(fetching, SearchKey(HookTerm(searchValue, debouncedValue)),
                             SearchKey(HookTerm(searchValue, searchValue)), server)
  /\ issued' = Count(issued, fetching, fetching')
  /\ WithinBudget(issued')
  /\ LET notifies == NotifiesListError(debouncedValue' # debouncedValue, cache)
     IN  /\ toastActive' = ToastAfter(toastActive, notifies)
         /\ errorShown' = ShownAfter(errorShown, toastActive, notifies)
  /\ UNCHANGED <<cache, server, searchValue, burst, showDeleteDialog, showEditDialog,
                 selectedProductId, shouldFetch, removes, late>>
  /\ UNCHANGED editAsked
  /\ UNCHANGED bookVars
  /\ UNCHANGED addVars

(***************************************************************************)
(* Home under searches: the user types, time passes, the network answers,  *)
(* SWR revalidates.                                                        *)
(***************************************************************************)
SearchNext ==
  \/ \E v \in Inputs : HandleChangeSearchValue(v)
  \/ Tick
  \/ DebounceFire
  \/ \E r \in fetching, ok \in BOOLEAN : Deliver(r, ok)
  \/ \E r \in fetching : DedupExpire(r)
  \/ \E t \in Inputs : Revalidate(FindKey(t))
  \/ ToastClose

SpecSearch == Init /\ [][SearchNext]_vars

(***************************************************************************)
(* Editing a product (part_000:26-31, 45-54, 133-141).                     *)
(***************************************************************************)
\* part_000:45-52   handleEditProduct, and the render it causes
HandleEditProduct(id) ==
  /\ HomeVisible
  /\ id \in Range(Rendered)
  /\ selectedProductId' = id
  /\ shouldFetch' = TRUE
  /\ showEditDialog' = IF ~IsFetch THEN TRUE ELSE showEditDialog
  /\ fetching' = AfterRender(fetching, EntityKey(shouldFetch, selectedProductId),
                             EntityKey(TRUE, id), server)
  /\ issued' = Count(issued, fetching, fetching')
  /\ WithinBudget(issued')
  /\ UNCHANGED <<cache, server, searchValue, debouncedValue, timer, burst,
                 showDeleteDialog, removes, toastActive, errorShown, late>>
  /\ editAsked' = id
  /\ UNCHANGED bookVars
  /\ UNCHANGED addVars

\* part_000:54   handleCloseEditForm, from the form's cancel or its
\* onSubmitSuccess
HandleCloseEditForm ==
  /\ EditFormShown
  /\ showEditDialog' = FALSE
  /\ UNCHANGED <<cache, fetching, issued, server, searchValue, debouncedValue, timer,
                 burst, showDeleteDialog, selectedProductId, shouldFetch, removes,
                 toastActive, errorShown, late>>
  /\ editAsked' = NoSelection
  /\ UNCHANGED bookVars
  /\ UNCHANGED addVars

(***************************************************************************)
(* Home under edit requests: the user asks to edit or to delete products   *)
(* and closes what opens, the network answers, SWR revalidates.            *)
(***************************************************************************)
EditNext ==
  \/ \E id \in ItemIds : HandleEditProduct(id)
  \/ HandleCloseEditForm
  \/ \E id \in ItemIds : HandleDeleteProduct(id)
  \/ HandleCancel
  \/ \E r \in fetching, ok \in BOOLEAN : Deliver(r, ok)
  \/ \E r \in fetching : DedupExpire(r)
  \/ \E id \in ItemIds : Revalidate(ItemKey(id))
  \/ ToastClose

SpecEdit == Init /\ [][EditNext]_vars

(***************************************************************************)
(* Home with its three hooks at work together: the collection is listed,   *)
(* one term is searched and cleared, one product is edited, one is         *)
(* deleted at the backend, and every key a hook holds is revalidated while *)
(* requests are in flight.  An error toast stays on screen.                *)
(***************************************************************************)
\* the term typed in these behaviours
FetchTerm == <<"a">>

FetchNext ==
  \/ \E v \in {<<>>, FetchTerm} : HandleChangeSearchValue(v)
  \/ Tick
  \/ DebounceFire
  \/ HandleEditProduct("A")
  \/ HandleCloseEditForm
  \/ HandleDeleteProduct("B")
  \/ HandleConfirm
  \/ \E i \in 1..MaxRemoves : ServerRemove(i, "ok")
  \/ \E i \in 1..MaxRemoves : RemoveSettle(i)
  \/ \E r \in fetching, ok \in BOOLEAN : Deliver(r, ok)
  \/ \E r \in fetching : DedupExpire(r)
  \/ \E k \in Keys : Revalidate(k)

SpecFetch == Init /\ [][FetchNext]_vars

(***************************************************************************)
(* Claims about searching in Home, checked under SpecSearch.               *)
(***************************************************************************)
\* the search requests whose loader this step invokes
FindInvoked == {r \in Invoked(fetching, fetching') : r.key.kind = "find"}

\* this step is the debouncer's commit that ends a burst of input changes
CommitsBurst == timer = 0 /\ timer' = -1 /\ burst > 0

\* C3, as claimed: the commit that ends a burst of input changes issues
\* exactly one search fetch, carrying the last typed value.
C3_OneFetchForEveryBurst ==
  [][CommitsBurst =>
       /\ Cardinality(FindInvoked) = 1
       /\ \A r \in FindInvoked : r.key = FindKey(searchValue)]_vars

\* C3, amended: a change of the search input issues no fetch; the debounced
\* value changes only when the timeout of DebounceDelay has run out since the
\* last change, to the last typed value; every search fetch carries the
\* debounced value; and the commit that ends a burst issues at most one
\* search fetch, for the last typed value: one if that value is not empty,
\* differs from the value settled before and SWR holds no request marker for
\* it, none otherwise.
C3_DebouncedFetch ==
  [][/\ searchValue' # searchValue => FindInvoked = {}
     /\ debouncedValue' # debouncedValue => timer = 0 /\ debouncedValue' = searchValue
     /\ \A r \in FindInvoked : r.key = FindKey(debouncedValue')
     /\ CommitsBurst =>
          /\ Cardinality(FindInvoked) <= 1
          /\ \A r \in FindInvoked : r.key = FindKey(searchValue)
          /\ (FindInvoked # {}) <=>
               (/\ Len(searchValue) # 0
                /\ searchValue # debouncedValue
                /\ ~HasMarker(fetching, FindKey(searchValue)))]_vars

\* C3 witness: a burst of three changes has ended in "abc", and the one search
\* fetch of the behaviour is in flight, for "abc".
C3_Witness ==
  /\ burst = 3
  /\ timer = -1
  /\ debouncedValue = <<"a", "b", "c">>
  /\ issued = 2
  /\ \E r \in fetching : r.key = FindKey(<<"a", "b", "c">>) /\ r.phase = "sent"

\* C4: no search request is ever issued for the empty term, and a cleared
\* field shows the collection listing, not search results.
C4_EmptyTermDeactivatesSearch ==
  /\ \A r \in fetching : r.key.kind = "find" => Len(r.key.arg) # 0
  /\ ~cache[FindKey(<<>>)].loaded /\ ~cache[FindKey(<<>>)].error
  /\ searchValue = <<>> => Rendered = Products

\* C4 witness: a search has brought results, and the field has been cleared
\* and has settled.
C4_Witness ==
  /\ searchValue = <<>>
  /\ debouncedValue = <<>>
  /\ timer = -1
  /\ burst > 0
  /\ \E t \in Inputs : cache[FindKey(t)].loaded
  /\ Rendered = Items

\* C9: the failure of a fetch for a key one of Home's hooks holds (the
\* collection, the active search key, the active entity key) is reported to
\* the user.
C9_FetchFailuresSurfaced == \A k \in HookKeys : cache[k].error => k \in errorShown

\* C20: a list of search results on screen (the input is not blank) is the
\* result for the term in the input field.
C20_ShownResultIsForInput ==
  (HomeVisible /\ Trim(searchValue) # <<>> /\ Rendered # <<>>) =>
    Rendered = Search(searchValue, server)

(***************************************************************************)
(* The claim about overlapping registrations, checked under SpecFetch.     *)
(***************************************************************************)
\* the requests for key k whose loader this step invokes
InvokedFor(k) == {r \in Invoked(fetching, fetching') : r.key = k}

\* request r, in flight before this step, has completed after it
Completes(r) == r \in fetching /\ r.phase = "sent" /\ ~Pending(fetching', r.key)

\* C5: for every key (collection, search term, entity id) there is at most
\* one request at a time; a step taken while a request for the key is in
\* flight invokes the loader for that key no second time; and when a request
\* that a second registration attached to completes, every registration reads
\* the one entry of the key: the value that request resolved with (also when
\* the backend holds something else by then), the failure it ended with, or,
\* if a mutation discarded the request, the entry the mutation wrote.
C5_OneRequestPerKey ==
  /\ [](\A r, q \in fetching : r.key = q.key => r = q)
  /\ [][\A k \in Keys :
          /\ Pending(fetching, k) => InvokedFor(k) = {}
          /\ \A r \in fetching :
               (r.key = k /\ r.joined /\ Completes(r)) =>
                 IF ~HasMarker(fetching', k) THEN cache'[k].error
                 ELSE IF r.stale THEN cache'[k] = cache[k]
                 ELSE cache'[k] = [loaded |-> TRUE, data |-> r.data, error |-> FALSE]]_vars

\* C5 witness: a second registration attached to a request for the collection
\* while it was in flight, the backend removed a product meanwhile, and the
\* entry holds what that one request resolved with; a second registration has
\* attached to a search request as well.
C5_Witness ==
  /\ \E r \in fetching :
       /\ r.key = ListKey /\ r.joined /\ r.phase = "done"
       /\ cache[ListKey].data = r.data
       /\ r.data # server
  /\ \E r \in fetching : r.key.kind = "find" /\ r.joined

(***************************************************************************)
(* Claims about the entity key of Home, checked under SpecEdit.            *)
(***************************************************************************)
\* C6: whenever the edit form is shown and has default values, they are the
\* data of the selected product, also after the answer for another product
\* has arrived late.
C6_FormShowsSelectedEntity ==
  (EditFormShown /\ HasData(cache, EntityKey(shouldFetch, selectedProductId))) =>
    DefaultValues = <<selectedProductId>>

\* C6 witness: the form is shown with the data of the selected product after
\* an answer for another product arrived while this one was selected.
C6_Witness ==
  /\ late
  /\ EditFormShown
  /\ DefaultValues = <<selectedProductId>>
  /\ \E id \in ItemIds \ {selectedProductId} : cache[ItemKey(id)].loaded

\* the entity requests whose loader this step invokes
ItemInvoked == {r \in Invoked(fetching, fetching') : r.key.kind = "item"}

\* C13: the click on Delete that opens the dialog invokes the entity loader
\* for no product.
C13_EntityFetchOnlyOnEdit ==
  [][(~showDeleteDialog /\ showDeleteDialog') => ItemInvoked = {}]_vars

\* C18: once the entity the user asked to edit has been fetched and no entity
\* request is pending, the edit form is open with that entity's data.
C18_EditRequestOpensForm ==
  (/\ editAsked # NoSelection
   /\ HomeVisible
   /\ HasData(cache, ItemKey(editAsked))
   /\ ~IsFetch) =>
     EditFormShown /\ DefaultValues = <<editAsked>>

(***************************************************************************)
(* Hiring a book in BookDetail (ProductSection.jsx:278-348).               *)
(***************************************************************************)

\* ProductSection.jsx:281-283  the flags the mutation hook returns
IsHireSuccess(status) == status = "success"

IsHireError(status) == status = "error"

\* ProductSection.jsx:289-291  the returns of the effect that come before
\* its branch for a failed mutation
ReachesErrorBranch(book, status) == book.loaded /\ IsHireSuccess(status)

\* ProductSection.jsx:292-295  the effect reports the failure of the mutation
ReportsHireError(book, status) ==
  ReachesErrorBranch(book, status) /\ IsHireError(status)

\* ProductSection.jsx:297  toast.isActive(toastId)
IsActive(active) == active

\* ProductSection.jsx:289-297  the effect goes on to its success part
ReportsHireSuccess(book, status, data, active) ==
  /\ book.loaded
  /\ IsHireSuccess(status)
  /\ ~IsHireError(status)
  /\ data # 0
  /\ ~IsActive(active)

\* ProductSection.jsx:305-316  the dependencies of the hire effect that can
\* change while BookDetail is mounted; hireError is null unless isHireError,
\* renderError (237-247) is a new function whenever toast is
HireDeps(book, status, data, t) ==
  <<book, IsHireSuccess(status), IsHireError(status), data, t>>

\* ProductSection.jsx:288-316  the hire effect after the render with the
\* book, the hire status, the returned data and the toast function given: it
\* runs if one of its dependencies differs from the render before, and its
\* first statement is onClose()
HireEffect(book, status, data, t) ==
  LET run == HireDeps(bookData, hireStatus, returnData, toast)
               # HireDeps(book, status, data, t)
  IN  IF ~run
        THEN UNCHANGED <<isOpen, successToasts, errorToasts, hired, hireToastActive>>
        ELSE /\ isOpen' = FALSE
             /\ IF ReportsHireError(book, status)
                  THEN /\ errorToasts' = [errorToasts EXCEPT ![hireCount'] = @ + 1]
                       /\ UNCHANGED <<successToasts, hired, hireToastActive>>
                  ELSE IF ReportsHireSuccess(book, status, data, hireToastActive)
                    THEN /\ hired' = Append(hired, data)
                         /\ successToasts' = [successToasts EXCEPT ![data] = @ + 1]
                         /\ hireToastActive' = TRUE
                         /\ UNCHANGED errorToasts
                    ELSE UNCHANGED <<successToasts, errorToasts, hired, hireToastActive>>

\* ProductSection.jsx:254  isSuccess: isDeleteBookSuccess
IsDeleteSuccess(status) == status = "success"

\* ProductSection.jsx:254  error: deleteError, 0 for null; every failed
\* mutation brings an Error of its own
DeleteErrorOf(status, count) == IF status = "error" THEN count ELSE 0

\* ProductSection.jsx:276  [isDeleteBookSuccess, deleteError, renderError,
\* toast, navigate]: renderError (237-247) is a new function whenever toast
\* is, navigate keeps its identity while books/:bookId is the route
DeleteDeps(success, err, t) == <<success, err, t>>

\* ProductSection.jsx:265-276  the delete effect after the render with the
\* delete status, the delete count and the toast function given: it runs if
\* one of its dependencies differs from the render before
DeleteEffect(status, count, t) ==
  LET run == DeleteDeps(IsDeleteSuccess(deleteStatus),
                        DeleteErrorOf(deleteStatus, deleteCount), toast)
               # DeleteDeps(IsDeleteSuccess(status), DeleteErrorOf(status, count), t)
  IN  /\ deleteToasts' =
           IF ~run THEN deleteToasts
           ELSE IF ~IsDeleteSuccess(status)
             THEN \* lines 266-269: renderError(deleteError) notifies an Error only
                  IF DeleteErrorOf(status, count) # 0
                    THEN [deleteToasts EXCEPT !.error = @ + 1]
                    ELSE deleteToasts
             ELSE [deleteToasts EXCEPT !.success[count] = @ + 1]
      /\ navigations' = IF run /\ IsDeleteSuccess(status) THEN navigations + 1
                        ELSE navigations

\* ProductSection.jsx:248  the book's query delivers data that differs from
\* what the view holds: first the book, later a changed copy of it
BookDataChanges(q) ==
  /\ mounted
  /\ bookData.version < MaxVersions + 1
  /\ bookData' = [loaded |-> TRUE, version |-> bookData.version + 1, quantity |-> q]
  /\ isLoading' = FALSE
  /\ HireEffect(bookData', hireStatus, returnData, toast)
  /\ DeleteEffect(deleteStatus, deleteCount, toast)
  /\ UNCHANGED <<currentUser, hireCount, hireOutcome, hireStatus, returnData,
                 blockedToasts, deleteCount, deleteOutcome, deleteStatus, mounted>>
  /\ UNCHANGED toast
  /\ UNCHANGED homeVars
  /\ UNCHANGED addVars

\* ProductSection.jsx:248, 250-252  the book's query settles with an error
\* before it ever had data: isLoading turns false, data stays undefined
BookQueryFails ==
  /\ mounted
  /\ isLoading
  /\ isLoading' = FALSE
  /\ UNCHANGED <<bookData, currentUser, hireCount, hireOutcome, hireStatus, returnData,
                 isOpen, hireToastActive, successToasts, errorToasts, hired,
                 blockedToasts, deleteVars>>
  /\ UNCHANGED toast
  /\ UNCHANGED homeVars
  /\ UNCHANGED addVars

\* the roles a user has
Roles == {"admin", "member"}

\* ProductSection.jsx:231  what the auth store can hold: nobody, or a user
\* with a role and a number of hire requests left
Users ==
  {[present |-> FALSE, role |-> "none", hireRequests |-> 0]} \cup
  {[present |-> TRUE, role |-> r, hireRequests |-> n] : r \in Roles, n \in 0..MaxQuantity}

\* the auth store's user changes (ProductSection.jsx:231)
UserChanges(u) ==
  /\ mounted
  /\ currentUser # u
  /\ currentUser' = u
  /\ UNCHANGED <<bookData, hireCount, hireOutcome, hireStatus, returnData, isOpen,
                 hireToastActive, successToasts, errorToasts, hired, blockedToasts,
                 deleteVars, isLoading>>
  /\ UNCHANGED toast
  /\ UNCHANGED homeVars
  /\ UNCHANGED addVars

\* ProductSection.jsx:350  if (isLoading) return <Loading />: the buttons
\* and the dialog are on screen, also after navigate was called and until
\* the router has taken BookDetail off the route
BookShown == mounted /\ ~isLoading

\* ProductSection.jsx:364  currentUser?.role === 'admin': Edit and Delete are
\* on screen
AdminButtonsShown == BookShown /\ currentUser.present /\ currentUser.role = "admin"

\* guards that do not look at the number of copies
CanHireAnyQuantity(book, user) ==
  /\ book.loaded
  /\ user.present
  /\ user.hireRequests > 0

\* ProductSection.jsx:320-348  the guards of handleHireBook
CanHire(book, user) ==
  /\ book.loaded
  /\ user.present
  /\ book.quantity > 0
  /\ user.hireRequests > 0

\* ProductSection.jsx:324-338  handleHireBook answers with an error toast
HireBlocked(book, user) ==
  /\ book.loaded
  /\ user.present
  /\ (book.quantity <= 0 \/ user.hireRequests <= 0)

\* ProductSection.jsx:320-348, 391  handleHireBook: the click on Hire
\* dispatches the mutation, or shows one error toast, or (without book data
\* or without a user) returns at line 321 or 322
HandleHireBook ==
  /\ BookShown
  /\ IF CanHire(bookData, currentUser)
       THEN /\ hireCount < MaxHires
            /\ hireCount' = hireCount + 1
            /\ hireOutcome' = [hireOutcome EXCEPT ![hireCount + 1] = "loading"]
            /\ hireStatus' = "loading"
            /\ returnData' = 0
            /\ HireEffect(bookData, hireStatus', returnData', toast)
            /\ UNCHANGED blockedToasts
       ELSE IF HireBlocked(bookData, currentUser)
       THEN /\ blockedToasts < MaxBlocked
            /\ blockedToasts' = blockedToasts + 1
            /\ UNCHANGED <<hireCount, hireOutcome, hireStatus, returnData, isOpen,
                           successToasts, errorToasts, hired, hireToastActive>>
       ELSE UNCHANGED <<hireCount, hireOutcome, hireStatus, returnData, isOpen,
                        successToasts, errorToasts, hired, hireToastActive,
                        blockedToasts>>
  /\ UNCHANGED <<bookData, currentUser, deleteVars, isLoading>>
  /\ UNCHANGED toast
  /\ UNCHANGED homeVars
  /\ UNCHANGED addVars

\* ProductSection.jsx:278-286  a hire mutation settles; the hook follows the
\* one dispatched last
HireSettles(m, ok) ==
  /\ hireOutcome[m] = "loading"
  /\ hireOutcome' = [hireOutcome EXCEPT ![m] = IF ok THEN "success" ELSE "error"]
  /\ IF m = hireCount /\ mounted
       THEN /\ hireStatus' = hireOutcome'[m]
            /\ returnData' = IF ok THEN m ELSE 0
            /\ HireEffect(bookData, hireStatus', returnData', toast)
       ELSE UNCHANGED <<hireStatus, returnData, isOpen, successToasts, errorToasts,
                        hired, hireToastActive>>
  /\ UNCHANGED <<bookData, currentUser, hireCount, blockedToasts, deleteVars, isLoading>>
  /\ UNCHANGED toast
  /\ UNCHANGED homeVars
  /\ UNCHANGED addVars

\* ProductSection.jsx:83  the toast leaves the screen: its duration of
\* 3000 ms is over, or the user closes it
HireToastCloses ==
  /\ hireToastActive
  /\ hireToastActive' = FALSE
  /\ UNCHANGED <<bookData, currentUser, hireCount, hireOutcome, hireStatus, returnData,
                 isOpen, successToasts, errorToasts, hired, blockedToasts, deleteVars,
                 isLoading>>
  /\ UNCHANGED toast
  /\ UNCHANGED homeVars
  /\ UNCHANGED addVars

\* ProductSection.jsx:236, 364, 378  the Delete button, on screen for an
\* admin, opens the dialog
OnOpen ==
  /\ AdminButtonsShown
  /\ ~isOpen
  /\ isOpen' = TRUE
  /\ UNCHANGED <<bookData, currentUser, hireCount, hireOutcome, hireStatus, returnData,
                 hireToastActive, successToasts, errorToasts, hired, blockedToasts,
                 deleteVars, isLoading>>
  /\ UNCHANGED toast
  /\ UNCHANGED homeVars
  /\ UNCHANGED addVars

\* ProductSection.jsx:438  the dialog's cancel
OnClose ==
  /\ BookShown
  /\ isOpen
  /\ isOpen' = FALSE
  /\ UNCHANGED <<bookData, currentUser, hireCount, hireOutcome, hireStatus, returnData,
                 hireToastActive, successToasts, errorToasts, hired, blockedToasts,
                 deleteVars, isLoading>>
  /\ UNCHANGED toast
  /\ UNCHANGED homeVars
  /\ UNCHANGED addVars

\* ProductSection.jsx:256-263  handleDeleteBook, the dialog's confirm
HandleDeleteBook ==
  /\ BookShown
  /\ isOpen
  /\ deleteCount < MaxDeletes
  /\ deleteCount' = deleteCount + 1
  /\ deleteOutcome' = [deleteOutcome EXCEPT ![deleteCount + 1] = "loading"]
  /\ deleteStatus' = "loading"
  /\ isOpen' = FALSE
  /\ DeleteEffect(deleteStatus', deleteCount', toast)
  /\ UNCHANGED <<bookData, currentUser, hireCount, hireOutcome, hireStatus, returnData,
                 hireToastActive, successToasts, errorToasts, hired, blockedToasts,
                 mounted, isLoading>>
  /\ UNCHANGED toast
  /\ UNCHANGED homeVars
  /\ UNCHANGED addVars

\* ProductSection.jsx:254  a delete mutation settles; the hook follows the
\* one dispatched last
DeleteSettles(m, ok) ==
  /\ deleteOutcome[m] = "loading"
  /\ deleteOutcome' = [deleteOutcome EXCEPT ![m] = IF ok THEN "success" ELSE "error"]
  /\ IF m = deleteCount /\ mounted
       THEN /\ deleteStatus' = deleteOutcome'[m]
            /\ DeleteEffect(deleteStatus', deleteCount, toast)
       ELSE UNCHANGED <<deleteStatus, deleteToasts, navigations>>
  /\ UNCHANGED <<bookData, currentUser, hireCount, hireOutcome, hireStatus, returnData,
                 isOpen, hireToastActive, successToasts, errorToasts, hired,
                 blockedToasts, deleteCount, mounted, isLoading>>
  /\ UNCHANGED toast
  /\ UNCHANGED homeVars
  /\ UNCHANGED addVars

\* BookDetail stops being the element of the route: it unmounts
Unmounts ==
  /\ mounted' = FALSE
  /\ UNCHANGED <<bookData, currentUser, hireCount, hireOutcome, hireStatus, returnData,
                 isOpen, hireToastActive, successToasts, errorToasts, hired,
                 blockedToasts, deleteCount, deleteOutcome, deleteStatus, deleteToasts,
                 navigations, isLoading>>
  /\ UNCHANGED toast
  /\ UNCHANGED homeVars
  /\ UNCHANGED addVars

\* ProductSection.jsx:275  the router follows navigate('/admin/dashboard'):
\* books/:bookId is no longer the route
RouteChanges ==
  /\ mounted
  /\ navigations > 0
  /\ Unmounts

\* ProductSection.jsx:318, 367  handleEditBook, the Edit button an admin
\* sees: navigate(`/admin/edit-book/${bookId}`), and by the route table
\* (116-123) EditBookPage takes the place of BookDetail
HandleEditBook ==
  /\ AdminButtonsShown
  /\ Unmounts

\* ProductSection.jsx:86-90  App swaps the private routes for the public ones
\* when loginUser leaves the user store
LoginUserChanges ==
  /\ mounted
  /\ Unmounts

\* ProductSection.jsx:79-83  loginUser is replaced by another user: App
\* renders again with a new toastOptions.defaultOptions object, the routes
\* stay, and useToast (233) returns a new function to BookDetail; the
\* effects that depend on toast or renderError run again
AppRenders ==
  /\ mounted
  /\ toast < MaxRenders
  /\ toast' = toast + 1
  /\ HireEffect(bookData, hireStatus, returnData, toast')
  /\ DeleteEffect(deleteStatus, deleteCount, toast')
  /\ UNCHANGED <<bookData, currentUser, hireCount, hireOutcome, hireStatus, returnData,
                 blockedToasts, deleteCount, deleteOutcome, deleteStatus, mounted,
                 isLoading>>
  /\ UNCHANGED homeVars
  /\ UNCHANGED addVars

(***************************************************************************)
(* BookDetail under hires: the book's data arrives and changes, the user   *)
(* hires, the mutation settles, the toast leaves the screen.               *)
(***************************************************************************)
HireNext ==
  \/ \E q \in 0..MaxQuantity : BookDataChanges(q)
  \/ BookQueryFails
  \/ HandleHireBook
  \/ \E m \in Mutations : \E ok \in BOOLEAN : HireSettles(m, ok)
  \/ HireToastCloses
  \/ OnOpen
  \/ \E u \in Users : UserChanges(u)
  \/ HandleEditBook
  \/ LoginUserChanges
  \/ AppRenders

SpecHire == Init /\ [][HireNext]_vars

(***************************************************************************)
(* BookDetail under deletes: the book's data arrives and changes, the user *)
(* opens, cancels and confirms the dialog, the mutation settles, the       *)
(* router follows the navigation.                                          *)
(***************************************************************************)
BookDeleteNext ==
  \/ \E q \in 0..MaxQuantity : BookDataChanges(q)
  \/ BookQueryFails
  \/ \E u \in Users : UserChanges(u)
  \/ OnOpen
  \/ OnClose
  \/ HandleDeleteBook
  \/ \E m \in Deletions : \E ok \in BOOLEAN : DeleteSettles(m, ok)
  \/ RouteChanges
  \/ HandleEditBook
  \/ LoginUserChanges
  \/ AppRenders

SpecBookDelete == Init /\ [][BookDeleteNext]_vars

(***************************************************************************)
(* BookDetail as a whole: hires and deletes together, with the dialog      *)
(* opened, cancelled and confirmed while the book's data and the hire      *)
(* mutation change.                                                        *)
(***************************************************************************)
BookDetailNext ==
  \/ \E q \in 0..MaxQuantity : BookDataChanges(q)
  \/ BookQueryFails
  \/ HandleHireBook
  \/ \E m \in Mutations : \E ok \in BOOLEAN : HireSettles(m, ok)
  \/ HireToastCloses
  \/ \E u \in Users : UserChanges(u)
  \/ OnOpen
  \/ OnClose
  \/ HandleDeleteBook
  \/ \E m \in Deletions : \E ok \in BOOLEAN : DeleteSettles(m, ok)
  \/ RouteChanges
  \/ HandleEditBook
  \/ LoginUserChanges
  \/ AppRenders

SpecBookDetail == Init /\ [][BookDetailNext]_vars

(***************************************************************************)
(* Claims about hiring in BookDetail, checked under SpecHire.              *)
(***************************************************************************)

\* C8: every hire mutation that was dispatched and failed has a failure
\* notification on record.
C8_FailedHireNotifies ==
  \A m \in Mutations : hireOutcome[m] = "error" => errorToasts[m] > 0

\* C10: a hire mutation that succeeded has at most one success notification
\* on record, however often the effect has run since.
C10_OneSuccessNotification ==
  \A m \in Mutations : successToasts[m] <= 1

\* C19: every hire mutation that succeeded and whose result the view holds
\* has a success notification on record and its record in the hired store,
\* also when it completed while the notification of an earlier one was on
\* screen.
C19_DistinctHiresBothNotified ==
  \A m \in Mutations :
    (hireOutcome[m] = "success" /\ returnData = m /\ bookData.loaded) =>
      successToasts[m] > 0 /\ m \in Range(hired)

\* C16: a hire mutation is dispatched only with book data, a user, a
\* quantity above 0 and hire requests above 0; a click that finds the quantity
\* or the hire requests at 0 or less dispatches nothing and shows exactly one
\* error notification.
C16_HireDispatchGuarded ==
  [][/\ hireCount' # hireCount =>
          /\ bookData.loaded /\ currentUser.present
          /\ bookData.quantity > 0 /\ currentUser.hireRequests > 0
     /\ blockedToasts' # blockedToasts =>
          /\ bookData.quantity <= 0 \/ currentUser.hireRequests <= 0
          /\ blockedToasts' = blockedToasts + 1
          /\ hireCount' = hireCount /\ hireOutcome' = hireOutcome]_vars

\* C16 witness: one click has dispatched a hire, and two clicks were answered
\* with an error notification, the later one for a user without hire requests
\* left and a book with copies.
C16_Witness ==
  /\ hireCount = 1
  /\ blockedToasts = 2
  /\ bookData.quantity > 0
  /\ currentUser.present /\ currentUser.hireRequests = 0

(***************************************************************************)
(* Claims about deleting in BookDetail, checked under SpecBookDelete.      *)
(***************************************************************************)
\* the delete mutations that have succeeded
DeletesSucceeded == {m \in Deletions : deleteOutcome[m] = "success"}

\* C15: while BookDetail is on its route, every delete mutation that has
\* succeeded has exactly one success notification, however often the delete
\* effect has run since, every other one has none, and navigate was called
\* once for every successful delete.
C15_OneDeleteSuccessNotification ==
  mounted =>
    /\ \A m \in Deletions :
         deleteToasts.success[m] = (IF m \in DeletesSucceeded THEN 1 ELSE 0)
    /\ navigations = Cardinality(DeletesSucceeded)

(***************************************************************************)
(* Adding a book in AddBook (ProductSection.jsx:151-191).  Nothing keeps   *)
(* the form from being submitted while a mutation is in flight; the hook    *)
(* follows the mutation dispatched last.                                   *)
(***************************************************************************)
\* ProductSection.jsx:158  if (isSuccess)
AddSucceeded(status) == status = "success"

\* ProductSection.jsx:168  if (error instanceof Error)
AddFailedWithError(error) == error = "Error"

\* ProductSection.jsx:157-174  the effect of AddBook, with the values of the
\* render it belongs to
AddEffect(status, data, error) ==
  /\ bookStore' = IF AddSucceeded(status) THEN Append(bookStore, data) ELSE bookStore
  /\ addPage' = IF AddSucceeded(status) THEN "left" ELSE addPage
  /\ addToasts' =
       [success |-> addToasts.success + (IF AddSucceeded(status) THEN 1 ELSE 0),
        error |-> addToasts.error + (IF AddFailedWithError(error) THEN 1 ELSE 0)]

\* ProductSection.jsx:174  [addBook, data, error, isSuccess, navigate, toast]:
\* the effect runs after a render in which one of them differs
AddDeps(status, data, error) == <<data, error, AddSucceeded(status)>>

\* ProductSection.jsx:176-184  handleOnSubmit, and the render it causes
HandleOnSubmit(values) ==
  /\ addMounted
  /\ addCount < MaxAdds
  /\ addCount' = addCount + 1
  /\ addOutcome' = [addOutcome EXCEPT ![addCount + 1] = "loading"]
  /\ addValues' = values
  /\ addStatus' = "loading"
  /\ addData' = NoRecord
  /\ addError' = "null"
  /\ IF AddDeps(addStatus', addData', addError') # AddDeps(addStatus, addData, addError)
       THEN AddEffect(addStatus', addData', addError')
       ELSE UNCHANGED <<bookStore, addPage, addToasts>>
  /\ UNCHANGED <<addMounted, addRenders>>
  /\ UNCHANGED homeVars
  /\ UNCHANGED bookVars

\* what an add mutation can settle with: the record the backend made of the
\* values, a rejection with an Error, a rejection with a value that is no
\* Error
Settlements == {"record", "Error", "other"}

\* ProductSection.jsx:155  an add mutation settles; the hook follows the one
\* dispatched last, while AddBook is mounted
AddSettles(m, with) ==
  /\ addOutcome[m] = "loading"
  /\ addOutcome' = [addOutcome EXCEPT ![m] = IF with = "record" THEN "success" ELSE "error"]
  /\ IF m = addCount /\ addMounted
       THEN /\ addStatus' = addOutcome'[m]
            /\ addData' = IF with = "record" THEN [id |-> addCount, name |-> addValues]
                          ELSE NoRecord
            /\ addError' = IF with = "record" THEN "null" ELSE with
            /\ AddEffect(addStatus', addData', addError')
       ELSE UNCHANGED <<addStatus, addData, addError, bookStore, addPage, addToasts>>
  /\ UNCHANGED <<addCount, addValues, addMounted, addRenders>>
  /\ UNCHANGED homeVars
  /\ UNCHANGED bookVars

\* ProductSection.jsx:154  the book store receives a book from another view
StoreLoads(name) ==
  /\ Cardinality({i \in 1..Len(bookStore) : bookStore[i].id = 0}) < MaxStored
  /\ bookStore' = Append(bookStore, [id |-> 0, name |-> name])
  /\ UNCHANGED <<addCount, addOutcome, addStatus, addValues, addData, addPage,
                 addMounted, addToasts, addError, addRenders>>
  /\ UNCHANGED homeVars
  /\ UNCHANGED bookVars

\* AddBook stops being the element of the route: it unmounts
AddUnmounts ==
  /\ addMounted
  /\ addMounted' = FALSE
  /\ UNCHANGED <<addCount, addOutcome, addStatus, addValues, addData, bookStore, addPage,
                 addToasts, addError, addRenders>>
  /\ UNCHANGED homeVars
  /\ UNCHANGED bookVars

\* ProductSection.jsx:165  the router follows navigate('/'): add-book is no
\* longer the route
AddRouteChanges ==
  /\ addPage = "left"
  /\ AddUnmounts

\* ProductSection.jsx:86-90  App swaps the private routes for the public ones
\* when loginUser leaves the user store
AddLoginUserChanges ==
  /\ addMounted
  /\ AddUnmounts

\* ProductSection.jsx:79-83  loginUser is replaced by another user: App
\* renders again with a new toastOptions.defaultOptions object, the routes
\* stay, useToast (152) returns a new function to AddBook, and the effect,
\* which depends on toast, runs again
AddAppRenders ==
  /\ addMounted
  /\ addRenders < MaxRenders
  /\ addRenders' = addRenders + 1
  /\ AddEffect(addStatus, addData, addError)
  /\ UNCHANGED <<addCount, addOutcome, addStatus, addValues, addData, addMounted,
                 addError>>
  /\ UNCHANGED homeVars
  /\ UNCHANGED bookVars

(***************************************************************************)
(* AddBook: the user submits the form, the mutation settles, the store     *)
(* receives books, the router follows the navigation, the user logs out or *)
(* is replaced.                                                            *)
(***************************************************************************)
AddNext ==
  \/ \E values \in Names : HandleOnSubmit(values)
  \/ \E m \in Additions, with \in Settlements : AddSettles(m, with)
  \/ \E name \in Names : StoreLoads(name)
  \/ AddRouteChanges
  \/ AddLoginUserChanges
  \/ AddAppRenders

SpecAdd == Init /\ [][AddNext]_vars

(***************************************************************************)
(* Claims about AddBook, checked under SpecAdd.                            *)
(***************************************************************************)
\* the records of add mutation m in the book store
RecordsOf(m) == {i \in 1..Len(bookStore) : bookStore[i].id = m}

\* C11: while AddBook is on its route, an add that succeeds has its record
\* merged into the book store, once, and the form is left; an add that fails
\* changes neither the store nor the page and shows one error notification;
\* and the store holds a record of no add that has not succeeded.
C11_AddOutcome ==
  /\ [](addMounted =>
          \A m \in Additions :
            IF addOutcome[m] = "success"
              THEN Cardinality(RecordsOf(m)) = 1 /\ addPage = "left"
              ELSE RecordsOf(m) = {})
  /\ [][\A m \in Additions :
          (addMounted /\ addOutcome[m] = "loading" /\ addOutcome'[m] = "error") =>
            /\ bookStore' = bookStore
            /\ addPage' = addPage
            /\ addToasts'.error = addToasts.error + 1]_vars

(***************************************************************************)
(* Claims about the dialog of BookDetail, checked under SpecBookDetail.    *)
(***************************************************************************)
\* C21: once the delete confirmation dialog of BookDetail is open, a step
\* that closes it changes neither the book's data nor the state of the hire
\* mutation: the dialog closes through the user's cancel or confirm only.
C21_DialogClosesByUserOnly ==
  [][(isOpen /\ ~isOpen') =>
       /\ bookData' = bookData
       /\ hireStatus' = hireStatus
       /\ returnData' = returnData]_vars

====
